---- MODULE Spec2Model ----
(***************************************************************************)
(* Semantic indexing and retrieval engine of the handwritten-notes         *)
(* pipeline: ChromaIndexer (src/src/chroma_indexer.py) over a persistent   *)
(* ChromaDB collection and a sentence-embedding model.                     *)
(*                                                                         *)
(* Representation.  A Python str is a sequence of atomic pieces (TLA+      *)
(* strings); the piece " " is whitespace, <<>> is the empty str.  A Python *)
(* list is a sequence, a dict is a function whose DOMAIN is its key set.   *)
(* Distances and similarities are in hundredths (100 stands for 1.0).      *)
(* A note field whose JSON value has not the type the schema gives it is   *)
(* named, with the type it has, in the note's `wrong_type` entry; a str    *)
(* standing for a list is written character by character.                 *)
(***************************************************************************)
EXTENDS Integers, Sequences, FiniteSets, TLC

VARIABLES
    collection_exists,  \* the named collection exists in persist_directory
    records,            \* the collection's records [id, document, embedding, metadata]
    indexer,            \* "absent" | "ready": a constructed ChromaIndexer exists; with
                        \* concurrent processes, the position of each in its code
    calls,              \* the index_note calls made so far, oldest first
    last,               \* the outcome of the latest public operation
    faults,             \* collaborator failures injected so far
    files               \* the JSON files kept beside the collection, by name: the
                        \* auto-indexer's control file, the pipeline's processed notes

vars == <<collection_exists, records, indexer, calls, last, faults, files>>

\* ------------------------------------------------------------------ bounds
\* index_note calls of a run in which collaborators may fail
MaxCalls == 2
\* collaborator failures of a run
MaxFaults == 1
\* index_note calls of a run in which no collaborator fails
MaxWorkingCalls == 3
\* largest n_results asked of search_similar_notes
MaxResults == 2
\* processes working on one collection at the same time
MaxProcs == 2
\* largest max_tokens given to format_for_rag
MaxTokens == 110
\* scans of the image directory made by the auto-indexer
MaxScans == 3
\* failures met by the auto-indexer in one run
MaxScanFaults == 2
\* runs of the main pipeline
MaxRuns == 2
\* longest context given to truncate_context, in characters
MaxContextLen == 9
\* largest max_tokens given to truncate_context
MaxCutTokens == 2

\* ------------------------------------------------------- Python primitives
\* bool(x) of a str or list
Truthy(x) == Len(x) > 0

\* dict.get(key, default)
Get(d, key, default) == IF key \in DOMAIN d THEN d[key] ELSE default

RECURSIVE LStrip(_)
LStrip(s) == IF s # <<>> /\ Head(s) = " " THEN LStrip(Tail(s)) ELSE s

RECURSIVE RStrip(_)
RStrip(s) ==
    IF s # <<>> /\ s[Len(s)] = " " THEN RStrip(SubSeq(s, 1, Len(s) - 1)) ELSE s

\* str.strip()
Strip(s) == RStrip(LStrip(s))

\* sep.join(parts)
RECURSIVE Join(_, _)
Join(parts, sep) ==
    IF parts = <<>> THEN <<>>
    ELSE IF Len(parts) = 1 THEN parts[1]
    ELSE parts[1] \o sep \o Join(Tail(parts), sep)

\* TaskTexts with the status joined to the task text
RECURSIVE TaskTextsWithStatus(_)
TaskTextsWithStatus(tasks) ==
    IF tasks = <<>> THEN <<>>
    ELSE (IF Truthy(Get(Head(tasks), "task", <<>>))
            THEN <<Head(tasks)["task"] \o <<Get(Head(tasks), "status", "")>> >>
            ELSE <<>>)
         \o TaskTextsWithStatus(Tail(tasks))

\* [f(x) for x in xs if keep]: the task texts of the dict tasks that have one
RECURSIVE TaskTexts(_)
TaskTexts(tasks) ==
    IF tasks = <<>> THEN <<>>
    ELSE (IF Truthy(Get(Head(tasks), "task", <<>>))
            THEN <<Head(tasks)["task"]>> ELSE <<>>)
         \o TaskTexts(Tail(tasks))

\* len([t for t in tasks if t.get("status") == status])
RECURSIVE CountStatus(_, _)
CountStatus(tasks, status) ==
    IF tasks = <<>> THEN 0
    ELSE (IF Get(Head(tasks), "status", "") = status THEN 1 ELSE 0)
         + CountStatus(Tail(tasks), status)

\* type(json_data[key]): "expected" (str for texts and hints, list of str for
\* notes, reminders and keywords, list of dict for tasks) unless named otherwise
TypeOf(json_data, key) == Get(Get(json_data, "wrong_type", <<>>), key, "expected")

\* isinstance(json_data[key], list)
IsList(json_data, key) == TypeOf(json_data, key) \in {"expected", "list of str"}

\* isinstance(task, dict) for the entries of json_data["tasks"]
TasksAreDicts(json_data) == TypeOf(json_data, "tasks") = "expected"

\* the characters of a str as the parts of a join
Chars(text) == [i \in 1..Len(text) |-> <<text[i]>>]

\* ------------------------------------------------------------------- notes
Note(title, data, summary, keywords, tasks, notes, reminders) ==
    [title |-> title, data |-> data, summary |-> summary, keywords |-> keywords,
     tasks |-> tasks, notes |-> notes, reminders |-> reminders]

WithHint(n, key, value) == (key :> value) @@ n

Task(text, status) == [task |-> text, status |-> status]

EmptyNote == Note(<<>>, <<>>, <<>>, <<>>, <<>>, <<>>, <<>>)

\* the example scenario of the specification
Planejamento ==
    Note(<<"Planejamento">>, <<"28/05/2025">>, <<"Tarefas", " ", "da", " ", "semana">>,
         << <<"trabalho">> >>, <<Task(<<"Reunião">>, "done")>>, <<>>, <<>>)

Compras ==
    Note(<<"Compras">>, <<"29/05/2025">>, <<>>, <<>>, <<>>,
         << <<"leite">>, <<"pão">> >>, << <<"sexta">> >>)

WrongType(n, key, type, value) ==
    ("wrong_type" :> (key :> type)) @@ [n EXCEPT ![key] = value]

\* notes in which one list field has the wrong type, next to non-empty texts
MalformedNotes ==
    { WrongType(Planejamento, "tasks", "str", <<"p", "ã", "o">>),
      WrongType(Planejamento, "tasks", "list of str", << <<"Reunião">>, <<"Relatório">> >>),
      WrongType(Compras, "notes", "str", <<"p", "ã", "o">>),
      WrongType(Planejamento, "keywords", "str", <<"p", "ã", "o">>) }

\* the notes the pipeline hands to index_note
Notes ==
    { EmptyNote,
      WithHint(WithHint(EmptyNote, "vector_id", <<"v1">>), "source_id", <<"s1">>),
      Planejamento,
      [Planejamento EXCEPT !.data = <<"30/05/2025">>],
      [Planejamento EXCEPT !.tasks = <<Task(<<"Reunião">>, "todo")>>],
      WithHint(Planejamento, "vector_id", <<"v1">>),
      WithHint(Compras, "vector_id", <<"v1">>) }

\* ------------------------------------------------- Note Content Normalizer
_extract_content_for_embedding(json_data) ==
    LET title == Get(json_data, "title", <<>>)
        summary == Get(json_data, "summary", <<>>)
        notes == Get(json_data, "notes", <<>>)
        reminders == Get(json_data, "reminders", <<>>)
        tasks == Get(json_data, "tasks", <<>>)
        keywords == Get(json_data, "keywords", <<>>)
        notes_text == Join(notes, <<" ">>)
        reminders_text == Join(reminders, <<" ">>)
        tasks_text == IF TasksAreDicts(json_data) THEN TaskTexts(tasks) ELSE <<>>
        keywords_text == Join(keywords, <<" ">>)
        content_parts ==
            (IF Truthy(title) THEN << <<"Título: ">> \o title >> ELSE <<>>)
            \o (IF Truthy(summary) THEN << <<"Resumo: ">> \o summary >> ELSE <<>>)
            \o (IF Truthy(notes) /\ IsList(json_data, "notes")
                    /\ Truthy(Strip(notes_text))
                  THEN << <<"Notas: ">> \o notes_text >> ELSE <<>>)
            \o (IF Truthy(reminders) /\ IsList(json_data, "reminders")
                    /\ Truthy(Strip(reminders_text))
                  THEN << <<"Lembretes: ">> \o reminders_text >> ELSE <<>>)
            \o (IF Truthy(tasks) /\ IsList(json_data, "tasks") /\ Truthy(tasks_text)
                  THEN << <<"Tarefas: ">> \o Join(tasks_text, <<" ">>) >> ELSE <<>>)
            \o (IF Truthy(keywords) /\ IsList(json_data, "keywords")
                    /\ Truthy(Strip(keywords_text))
                  THEN << <<"Palavras-chave: ">> \o keywords_text >> ELSE <<>>)
    IN  Join(content_parts, <<" | ">>)

\* _prepare_metadata with the task counters always written
PrepareMetadataZeroFilled(json_data, now) ==
    [title |-> Get(json_data, "title", <<>>),
     summary |-> Get(json_data, "summary", <<>>),
     data |-> Get(json_data, "data", <<>>),
     indexed_at |-> now,
     notes_count |-> Len(Get(json_data, "notes", <<>>)),
     reminders_count |-> Len(Get(json_data, "reminders", <<>>)),
     total_tasks |-> Len(Get(json_data, "tasks", <<>>)),
     done_tasks |-> CountStatus(Get(json_data, "tasks", <<>>), "done"),
     todo_tasks |-> CountStatus(Get(json_data, "tasks", <<>>), "todo")]
    @@ (IF Truthy(Get(json_data, "keywords", <<>>))
          THEN [keywords |-> Join(json_data["keywords"], <<", ">>)] ELSE <<>>)
    @@ (IF Truthy(Get(json_data, "source_id", <<>>))
          THEN [source_id |-> json_data["source_id"]] ELSE <<>>)
    @@ (IF Truthy(Get(json_data, "vector_id", <<>>))
          THEN [vector_id |-> json_data["vector_id"]] ELSE <<>>)

_prepare_metadata(json_data, now) ==
    LET tasks == Get(json_data, "tasks", <<>>)
        basic ==
            [title |-> Get(json_data, "title", <<>>),
             summary |-> Get(json_data, "summary", <<>>),
             data |-> Get(json_data, "data", <<>>),
             indexed_at |-> now,
             notes_count |-> Len(Get(json_data, "notes", <<>>)),
             reminders_count |-> Len(Get(json_data, "reminders", <<>>))]
        kw ==
            IF Truthy(Get(json_data, "keywords", <<>>))
              THEN [keywords |->
                      Join(IF IsList(json_data, "keywords") THEN json_data["keywords"]
                           ELSE Chars(json_data["keywords"]), <<", ">>)]
              ELSE <<>>
        counts ==
            IF Truthy(tasks)
              THEN [total_tasks |-> Len(tasks),
                    done_tasks |-> CountStatus(tasks, "done"),
                    todo_tasks |-> CountStatus(tasks, "todo")]
              ELSE <<>>
        src ==
            IF Truthy(Get(json_data, "source_id", <<>>))
              THEN [source_id |-> json_data["source_id"]] ELSE <<>>
        vec ==
            IF Truthy(Get(json_data, "vector_id", <<>>))
              THEN [vector_id |-> json_data["vector_id"]] ELSE <<>>
    IN  basic @@ kw @@ counts @@ src @@ vec

\* _prepare_metadata raises AttributeError at t.get("status") (lines 134-135) when
\* an entry of a non-empty `tasks` is not a dict: a str entry, or a character
PrepareMetadataRaises(json_data) ==
    Truthy(Get(json_data, "tasks", <<>>)) /\ ~TasksAreDicts(json_data)

\* hashlib.sha256(content.encode('utf-8')).hexdigest()[:16]: collision-free on
\* the texts of the model, and never equal to an identity hint
Sha256Hex16(content) == <<"sha256[:16] of ">> \o content

\* _generate_unique_id with the two hints tried in the other order
SourceIdFirst(json_data) ==
    IF Truthy(Get(json_data, "source_id", <<>>)) THEN json_data["source_id"]
    ELSE IF Truthy(Get(json_data, "vector_id", <<>>)) THEN json_data["vector_id"]
    ELSE Sha256Hex16(_extract_content_for_embedding(json_data))

_generate_unique_id(json_data) ==
    IF Truthy(Get(json_data, "vector_id", <<>>)) THEN json_data["vector_id"]
    ELSE IF Truthy(Get(json_data, "source_id", <<>>)) THEN json_data["source_id"]
    ELSE Sha256Hex16(_extract_content_for_embedding(json_data))

\* ------------------------------------------------------ Embedding Provider
\* SentenceTransformer.encode(text): a deterministic unit vector, here one of six
\* directions 60 degrees apart, given by its index 0..5
PieceCode(piece) ==
    CASE piece \in {"Planejamento", "trabalho", "tarefas"} -> 1
      [] piece \in {"Compras", "leite"} -> 3
      [] piece \in {"semana", "sexta"} -> 6
      [] OTHER -> 0

RECURSIVE SumCodes(_)
SumCodes(text) == IF text = <<>> THEN 0 ELSE PieceCode(Head(text)) + SumCodes(Tail(text))

encode(text) == SumCodes(text) % 6

\* cosine of k * 60 degrees, in hundredths
Cos60 == <<100, 50, -50, -100, -50, 50>>

\* the collection's metric, {"hnsw:space": "cosine"}: 1 - cos(angle between a and b)
CosineDistance(a, b) == 100 - Cos60[((a - b) % 6) + 1]

TextOf(n) == _extract_content_for_embedding(n)

\* the entry index_note builds from note n at time now (lines 183-205)
Computed(n, now) ==
    [id |-> _generate_unique_id(n), document |-> TextOf(n),
     embedding |-> encode(TextOf(n)), metadata |-> _prepare_metadata(n, now)]

\* -------------------------------------------------- Vector Collection Store
Ids(recs) == {r.id : r \in recs}

RecordOf(recs, id) == CHOOSE r \in recs : r.id = id

\* collection.get(ids=[id])
StoreGet(recs, id) == [ids |-> IF id \in Ids(recs) THEN <<id>> ELSE <<>>]

\* an insert that stores the entry whatever the collection holds
StoreAddAgain(recs, rec, dup_ignored) == [raised |-> FALSE, records |-> recs \cup {rec}]

\* collection.add(ids=[id], ...): an id already present is never stored twice; the
\* store either raises or ignores the insert, depending on its version
StoreAdd(recs, rec, dup_ignored) ==
    IF rec.id \in Ids(recs)
      THEN [raised |-> ~dup_ignored, records |-> recs]
      ELSE [raised |-> FALSE, records |-> recs \cup {rec}]

\* an update that drops the record it was asked to change
StoreUpdateDropping(recs, rec, merge) == {r \in recs : r.id # rec.id}

\* collection.update(ids=[id], ...): embedding and document are replaced; the
\* metadata keys given are written, and with `merge` the keys not given are kept
StoreUpdate(recs, rec, merge) ==
    IF rec.id \notin Ids(recs) THEN recs
    ELSE LET old == RecordOf(recs, rec.id)
             new == [rec EXCEPT !.metadata =
                        IF merge THEN rec.metadata @@ old.metadata ELSE rec.metadata]
         IN  (recs \ {old}) \cup {new}

\* the orders in which the store may rank the records: ascending distance, ties
\* in any order
Rankings(recs, query_embedding) ==
    LET k == Cardinality(recs)
    IN  { o \in [1..k -> recs] :
            /\ \A i, j \in 1..k : i # j => o[i] # o[j]
            /\ \A i \in 1..(k - 1) :
                 CosineDistance(query_embedding, o[i].embedding)
                   <= CosineDistance(query_embedding, o[i + 1].embedding) }

Min(a, b) == IF a <= b THEN a ELSE b

\* collection.query(query_embeddings=[q], n_results=n, include=[...]) with the
\* ranking the store chose; at most the records it holds
StoreQuery(ranking, query_embedding, n_results) ==
    LET top == SubSeq(ranking, 1, Min(n_results, Len(ranking)))
    IN  [ids |-> << [i \in 1..Len(top) |-> top[i].id] >>,
         documents |-> << [i \in 1..Len(top) |-> top[i].document] >>,
         metadatas |-> << [i \in 1..Len(top) |-> top[i].metadata] >>,
         distances |-> << [i \in 1..Len(top) |->
                             CosineDistance(query_embedding, top[i].embedding)] >>]

\* collection.count()
StoreCount(recs) == Cardinality(recs)

\* ----------------------------------------------------------------- Indexer
IndexFaults == {"none", "get", "encode", "write"}
SearchFaults == {"none", "encode", "query"}
StatsFaults == {"none", "count"}
InitFaults == {"none", "client", "model", "get_collection", "create_collection"}

\* ChromaIndexer.__init__: no statement of it is inside a try block except
\* get_collection, whose handler calls create_collection
ChromaIndexer__init__(exists, fault) ==
    IF fault \in {"client", "model"}
      THEN [escaped |-> TRUE, exists |-> exists]
    ELSE IF exists /\ fault # "get_collection"
      THEN [escaped |-> FALSE, exists |-> exists]
    ELSE IF exists \/ fault = "create_collection"
      THEN [escaped |-> TRUE, exists |-> exists]
    ELSE [escaped |-> FALSE, exists |-> TRUE]

\* what one run of index_note's try block did: the value it returned or the call
\* that raised, the collaborator calls it made, and the records it left
Ran(unique_id, swallowed_get, made, path, raised, returned, recs) ==
    [unique_id |-> unique_id, swallowed_get |-> swallowed_get, made |-> made,
     path |-> path, raised |-> raised, returned |-> returned, records |-> recs]

\* IndexOrUpdate with a failing write that has changed the collection before it
\* raises
IndexOrUpdateTorn(rec, existing_ids, swallowed_get, recs, fault, dup_ignored, merge) ==
    IF Truthy(existing_ids)
      THEN IF fault = "write"
             THEN Ran(rec.id, swallowed_get, {"get", "encode", "update"}, "update",
                      "update", FALSE, StoreUpdate(recs, rec, merge))
             ELSE Ran(rec.id, swallowed_get, {"get", "encode", "update"}, "update",
                      "none", TRUE, StoreUpdate(recs, rec, merge))
      ELSE IF fault = "write" \/ StoreAdd(recs, rec, dup_ignored).raised
             THEN Ran(rec.id, swallowed_get, {"get", "encode", "add"}, "add",
                      "add", FALSE, StoreAdd(recs, rec, dup_ignored).records)
             ELSE Ran(rec.id, swallowed_get, {"get", "encode", "add"}, "add",
                      "none", TRUE, StoreAdd(recs, rec, dup_ignored).records)

\* lines 207-227: update the existing entry or insert a new one
IndexOrUpdate(rec, existing_ids, swallowed_get, recs, fault, dup_ignored, merge) ==
    IF Truthy(existing_ids)
      THEN IF fault = "write"
             THEN Ran(rec.id, swallowed_get, {"get", "encode", "update"}, "update",
                      "update", FALSE, recs)
             ELSE Ran(rec.id, swallowed_get, {"get", "encode", "update"}, "update",
                      "none", TRUE, StoreUpdate(recs, rec, merge))
      ELSE IF fault = "write" \/ StoreAdd(recs, rec, dup_ignored).raised
             THEN Ran(rec.id, swallowed_get, {"get", "encode", "add"}, "add",
                      "add", FALSE, recs)
             ELSE Ran(rec.id, swallowed_get, {"get", "encode", "add"}, "add",
                      "none", TRUE, StoreAdd(recs, rec, dup_ignored).records)

\* CheckAndEmbed without the empty-content return
EmbedAnyContent(unique_id, content, json_data, recs, now, fault, dup_ignored, merge) ==
    IF fault = "encode"
      THEN Ran(unique_id, fault = "get", {"get", "encode"}, "none", "encode", FALSE, recs)
    ELSE IF PrepareMetadataRaises(json_data)
      THEN Ran(unique_id, fault = "get", {"get", "encode"}, "none", "_prepare_metadata",
               FALSE, recs)
    ELSE IndexOrUpdate([id |-> unique_id, document |-> content,
                        embedding |-> encode(content),
                        metadata |-> _prepare_metadata(json_data, now)],
                       IF fault = "get" THEN <<>> ELSE StoreGet(recs, unique_id).ids,
                       fault = "get", recs, fault, dup_ignored, merge)

\* lines 186-205: the existence check (its exception swallowed, `existing` left
\* None), the empty-content return, the embedding and the metadata
CheckAndEmbed(unique_id, content, json_data, recs, now, fault, dup_ignored, merge) ==
    IF ~Truthy(Strip(content))
      THEN Ran(unique_id, fault = "get", {"get"}, "none", "none", FALSE, recs)
    ELSE IF fault = "encode"
      THEN Ran(unique_id, fault = "get", {"get", "encode"}, "none", "encode", FALSE, recs)
    ELSE IF PrepareMetadataRaises(json_data)
      THEN Ran(unique_id, fault = "get", {"get", "encode"}, "none", "_prepare_metadata",
               FALSE, recs)
    ELSE IndexOrUpdate([id |-> unique_id, document |-> content,
                        embedding |-> encode(content),
                        metadata |-> _prepare_metadata(json_data, now)],
                       IF fault = "get" THEN <<>> ELSE StoreGet(recs, unique_id).ids,
                       fault = "get", recs, fault, dup_ignored, merge)

\* the try block of index_note (lines 182-227)
IndexNoteTry(json_data, recs, now, fault, dup_ignored, merge) ==
    CheckAndEmbed(_generate_unique_id(json_data),
                  _extract_content_for_embedding(json_data),
                  json_data, recs, now, fault, dup_ignored, merge)

\* the try block without a handler: what it raises reaches the caller
Reraise(try) ==
    [result |-> (try.raised = "none" /\ try.returned),
     escaped |-> (try.raised # "none"),
     unique_id |-> try.unique_id, swallowed_get |-> try.swallowed_get,
     raised |-> try.raised, made |-> try.made, path |-> try.path,
     records |-> try.records]

\* a handler that swallows the exception and reports success
ReturnTrueOnException(try) ==
    [result |-> (try.raised # "none" \/ try.returned), escaped |-> FALSE,
     unique_id |-> try.unique_id, swallowed_get |-> try.swallowed_get,
     raised |-> try.raised, made |-> try.made, path |-> try.path,
     records |-> try.records]

\* `except Exception: return False` (lines 229-231) around the try block
ReturnFalseOnException(try) ==
    [result |-> (try.raised = "none" /\ try.returned), escaped |-> FALSE,
     unique_id |-> try.unique_id, swallowed_get |-> try.swallowed_get,
     raised |-> try.raised, made |-> try.made, path |-> try.path,
     records |-> try.records]

index_note(json_data, recs, now, fault, dup_ignored, merge) ==
    ReturnFalseOnException(IndexNoteTry(json_data, recs, now, fault, dup_ignored, merge))

\* FormatResults starting at the second id
FormatResultsSkipFirst(results) ==
    [i \in 1..(Len(results.ids[1]) - 1) |->
        [id |-> results.ids[1][i + 1],
         document |-> results.documents[1][i + 1],
         metadata |-> results.metadatas[1][i + 1],
         similarity |-> 100 - results.distances[1][i + 1]]]

\* FormatResults returning after the first id
FormatResultsFirstOnly(results) ==
    [i \in 1..Min(1, Len(results.ids[1])) |->
        [id |-> results.ids[1][i],
         document |-> results.documents[1][i],
         metadata |-> results.metadatas[1][i],
         similarity |-> 100 - results.distances[1][i]]]

\* FormatResults reporting the distance as the similarity
FormatResultsDistance(results) ==
    [i \in 1..Len(results.ids[1]) |->
        [id |-> results.ids[1][i],
         document |-> results.documents[1][i],
         metadata |-> results.metadatas[1][i],
         similarity |-> results.distances[1][i]]]

\* results["ids"][0] enumerated into the formatted results (lines 255-263)
FormatResults(results) ==
    [i \in 1..Len(results.ids[1]) |->
        [id |-> results.ids[1][i],
         document |-> results.documents[1][i],
         metadata |-> results.metadatas[1][i],
         similarity |-> 100 - results.distances[1][i]]]

\* what one run of search_similar_notes did: the value it returned, the call that
\* raised, and the ids in the order the store answered them
Answered(formatted_results, raised, store_ids) ==
    [results |-> formatted_results, raised |-> raised, escaped |-> FALSE,
     store_ids |-> store_ids]

\* lines 248-265: the store's answer formatted and returned
QueryAndFormat(results) == Answered(FormatResults(results), "none", results.ids[1])

\* search_similar_notes with the empty query rejected before it is embedded
SearchRejectingEmptyQuery(query, n_results, ranking, fault) ==
    IF ~Truthy(Strip(query)) THEN Answered(<<>>, "none", <<>>)
    ELSE IF fault = "encode" THEN Answered(<<>>, "encode", <<>>)
    ELSE IF fault = "query" \/ n_results <= 0 THEN Answered(<<>>, "query", <<>>)
    ELSE QueryAndFormat(StoreQuery(ranking, encode(query), n_results))

\* search_similar_notes: the try block under `except Exception: return []`; the
\* store rejects n_results <= 0 by raising
search_similar_notes(query, n_results, ranking, fault) ==
    IF fault = "encode" THEN Answered(<<>>, "encode", <<>>)
    ELSE IF fault = "query" \/ n_results <= 0 THEN Answered(<<>>, "query", <<>>)
    ELSE QueryAndFormat(StoreQuery(ranking, encode(query), n_results))

\* get_collection_stats: the try block under `except Exception: return {"error": ...}`
get_collection_stats(recs, fault) ==
    IF fault = "count"
      THEN [stats |-> [error |-> "count failed"], raised |-> "count", escaped |-> FALSE]
      ELSE [stats |-> [total_notes |-> StoreCount(recs),
                       collection_name |-> "handwritten_notes",
                       persist_directory |-> "./chroma_db"],
            raised |-> "none", escaped |-> FALSE]

Queries == { <<>>, <<"tarefas", " ", "de", " ", "trabalho">> }

\* ------------------------------------------------------------------ actions
Init ==
    /\ collection_exists \in BOOLEAN
    /\ records = {}
    /\ indexer = "absent"
    /\ calls = <<>>
    /\ last = [op |-> "none"]
    /\ faults = 0
    /\ files = <<>>

Inject(fault) ==
    /\ fault # "none" => faults < MaxFaults
    /\ faults' = IF fault = "none" THEN faults ELSE faults + 1

\* search_similar_notes and get_collection_stats write neither the collection nor
\* the indexer: a run is explored up to its first such observation, since what can
\* follow it is what can follow the state it was made in
Observed == last.op \in {"search_similar_notes", "get_collection_stats"}

Constructed(fault, out) == [op |-> "__init__", fault |-> fault, escaped |-> out.escaped]

\* ChromaIndexer(...) with the collaborator failures of `may_fail`
Construct(may_fail) ==
    /\ ~Observed
    /\ indexer = "absent"
    /\ \E fault \in may_fail :
         /\ Inject(fault)
         /\ last' = Constructed(fault, ChromaIndexer__init__(collection_exists, fault))
         /\ collection_exists' = ChromaIndexer__init__(collection_exists, fault).exists
         /\ indexer' = IF last'.escaped THEN "absent" ELSE "ready"
    /\ UNCHANGED <<records, calls, files>>

\* one entry of `calls`: the call's arguments, the records before it, its outcome
Call(json_data, now, fault, before, out) ==
    [note |-> json_data, now |-> now, fault |-> fault, before |-> before,
     result |-> out.result, escaped |-> out.escaped, unique_id |-> out.unique_id,
     swallowed_get |-> out.swallowed_get, raised |-> out.raised, made |-> out.made,
     path |-> out.path, after |-> out.records]

\* indexer.index_note(json_data) for a note of `notes`; datetime.now() grows from
\* call to call
IndexNoteOf(notes, may_fail, max_calls) ==
    /\ ~Observed
    /\ indexer = "ready"
    /\ Len(calls) < max_calls
    /\ \E json_data \in notes, fault \in may_fail, merge \in BOOLEAN :
       \E dup_ignored \in (IF fault = "get" THEN BOOLEAN ELSE {FALSE}) :
         /\ Inject(fault)
         /\ calls' = Append(calls,
                Call(json_data, Len(calls) + 1, fault, records,
                     index_note(json_data, records, Len(calls) + 1, fault,
                                dup_ignored, merge)))
         /\ records' = calls'[Len(calls')].after
         /\ last' = [op |-> "index_note", result |-> calls'[Len(calls')].result]
    /\ UNCHANGED <<collection_exists, indexer, files>>

IndexNote(may_fail, max_calls) == IndexNoteOf(Notes, may_fail, max_calls)

Searched(query, n_results, fault, out) ==
    [op |-> "search_similar_notes", query |-> query, n_results |-> n_results,
     fault |-> fault, results |-> out.results, raised |-> out.raised,
     escaped |-> out.escaped, store_ids |-> out.store_ids]

\* indexer.search_similar_notes(query, n_results)
SearchSimilarNotes(may_fail) ==
    /\ ~Observed
    /\ indexer = "ready"
    /\ \E query \in Queries, n_results \in 0..MaxResults, fault \in may_fail :
       \E ranking \in Rankings(records, encode(query)) :
         /\ Inject(fault)
         /\ last' = Searched(query, n_results, fault,
                             search_similar_notes(query, n_results, ranking, fault))
    /\ UNCHANGED <<collection_exists, records, indexer, calls, files>>

Counted(fault, out) ==
    [op |-> "get_collection_stats", fault |-> fault, stats |-> out.stats,
     raised |-> out.raised, escaped |-> out.escaped]

\* indexer.get_collection_stats()
GetCollectionStats(may_fail) ==
    /\ ~Observed
    /\ indexer = "ready"
    /\ \E fault \in may_fail :
         /\ Inject(fault)
         /\ last' = Counted(fault, get_collection_stats(records, fault))
    /\ UNCHANGED <<collection_exists, records, indexer, calls, files>>

Next ==
    \/ Construct(InitFaults)
    \/ IndexNote(IndexFaults, MaxCalls)
    \/ SearchSimilarNotes(SearchFaults)
    \/ GetCollectionStats(StatsFaults)

\* runs in which any collaborator call may fail
Spec == Init /\ [][Next]_vars

NextWorking ==
    \/ Construct({"none"})
    \/ IndexNote({"none"}, MaxWorkingCalls)
    \/ SearchSimilarNotes({"none"})
    \/ GetCollectionStats({"none"})

\* runs with a working provider and store
SpecWorking == Init /\ [][NextWorking]_vars

NextMalformed ==
    \/ Construct({"none"})
    \/ IndexNoteOf(Notes \cup MalformedNotes, {"none"}, MaxCalls)
    \/ SearchSimilarNotes({"none"})
    \/ GetCollectionStats({"none"})

\* runs with a working provider and store in which notes may be malformed
SpecMalformed == Init /\ [][NextMalformed]_vars

\* ------------------------------------------------- consumers of the stats
\* stats.get('count', 0): the note count the consumers take from the stats
NoteCount(stats) == Get(stats, "count", 0)

\* QueryInterface.setup_indexer (query_interface.py, lines 66-72): the warning that
\* nothing is indexed when the count is 0, the count otherwise
setup_indexer(stats) ==
    [warned |-> NoteCount(stats) = 0, notes |-> NoteCount(stats)]

\* QueryInterface.show_stats (lines 163-174): "Total de notas" and "Embeddings"
show_stats(stats) == [notes |-> NoteCount(stats), embeddings |-> NoteCount(stats)]

\* the web server's /stats (web_server.py, lines 109-115)
get_stats(stats) == [notes_count |-> NoteCount(stats)]

\* what a consumer showed: the stats it was given and the note count in its output
Shown(op, fault, out, notes) ==
    [op |-> op, fault |-> fault, stats |-> out.stats, raised |-> out.raised,
     notes |-> notes]

\* setup_indexer's check of the indexed data
SetupIndexer ==
    /\ indexer = "ready"
    /\ \E fault \in StatsFaults :
         /\ Inject(fault)
         /\ last' = Shown("setup_indexer", fault, get_collection_stats(records, fault),
                          setup_indexer(get_collection_stats(records, fault).stats).notes)
    /\ UNCHANGED <<collection_exists, records, indexer, calls, files>>

\* the `stats` command of the query interface
ShowStats ==
    /\ indexer = "ready"
    /\ \E fault \in StatsFaults :
         /\ Inject(fault)
         /\ last' = Shown("show_stats", fault, get_collection_stats(records, fault),
                          show_stats(get_collection_stats(records, fault).stats).notes)
    /\ UNCHANGED <<collection_exists, records, indexer, calls, files>>

\* GET /stats
GetStats ==
    /\ indexer = "ready"
    /\ \E fault \in StatsFaults :
         /\ Inject(fault)
         /\ last' = Shown("get_stats", fault, get_collection_stats(records, fault),
                          get_stats(get_collection_stats(records, fault).stats).notes_count)
    /\ UNCHANGED <<collection_exists, records, indexer, calls, files>>

NextConsumers ==
    \/ Construct({"none"})
    \/ IndexNote({"none"}, MaxCalls)
    \/ SetupIndexer
    \/ ShowStats
    \/ GetStats

\* notes indexed and the stats shown by the query interface and the web server
SpecConsumers == Init /\ [][NextConsumers]_vars

\* ------------------------------------------------------ concurrent processes
\* Each process constructs its own ChromaIndexer on the same collection_name and
\* persist_directory and then runs one index_note.  A step is one call on the
\* shared store (get_collection, create_collection, get, add or update), atomic at
\* the store, together with the process-local code up to the next store call.
Procs == 1..MaxProcs

ConcurrentNotes ==
    { EmptyNote, Planejamento,
      WithHint(Planejamento, "vector_id", <<"v1">>),
      WithHint(Compras, "vector_id", <<"v1">>) }

\* a process about to call get_collection (line 48): client and model are set up
Started ==
    [pc |-> "get_collection", note |-> EmptyNote, now |-> 0, existing_ids |-> <<>>,
     result |-> FALSE]

InitConcurrent ==
    /\ collection_exists \in BOOLEAN
    /\ records = {}
    /\ indexer = [p \in Procs |-> Started]
    /\ calls = <<>>
    /\ last = [op |-> "none"]
    /\ faults = 0
    /\ files = <<>>

\* line 48: get_collection returns the collection or raises into the handler
GetCollection(p) ==
    /\ indexer[p].pc = "get_collection"
    /\ indexer' = [indexer EXCEPT ![p].pc =
                      IF collection_exists THEN "ready" ELSE "create_collection"]
    /\ UNCHANGED <<collection_exists, records, calls, last, faults, files>>

\* lines 50-55: create_collection inside the handler; the store raises when a
\* collection of that name exists, and nothing catches it
CreateCollection(p) ==
    /\ indexer[p].pc = "create_collection"
    /\ indexer' = [indexer EXCEPT ![p].pc =
                      IF collection_exists THEN "raised" ELSE "ready"]
    /\ collection_exists' = TRUE
    /\ UNCHANGED <<records, calls, last, faults, files>>

\* lines 182-184: index_note entered, id and content derived
BeginIndexNote(p) ==
    /\ indexer[p].pc = "ready"
    /\ \E json_data \in ConcurrentNotes :
         indexer' = [indexer EXCEPT ![p].pc = "get", ![p].note = json_data]
    /\ UNCHANGED <<collection_exists, records, calls, last, faults, files>>

\* the time read by datetime.now() in _prepare_metadata: later than every earlier one
Clock == 1 + Cardinality({q \in Procs : indexer[q].now > 0})

\* lines 186-205: collection.get, then the empty-content return or the embedding
\* and the metadata
ExistenceCheck(p) ==
    /\ indexer[p].pc = "get"
    /\ indexer' =
         IF ~Truthy(Strip(_extract_content_for_embedding(indexer[p].note)))
           THEN [indexer EXCEPT ![p].pc = "done", ![p].result = FALSE]
           ELSE [indexer EXCEPT
                   ![p].pc = "write", ![p].now = Clock,
                   ![p].existing_ids =
                       StoreGet(records, _generate_unique_id(indexer[p].note)).ids]
    /\ UNCHANGED <<collection_exists, records, calls, last, faults, files>>

Written(p, out) == [indexer EXCEPT ![p].pc = "done", ![p].result = out.returned]

\* lines 207-231: collection.update or collection.add, and the value returned
WriteEntry(p) ==
    /\ indexer[p].pc = "write"
    /\ \E dup_ignored \in BOOLEAN, merge \in BOOLEAN :
         /\ indexer' =
              Written(p, IndexOrUpdate(Computed(indexer[p].note, indexer[p].now),
                                       indexer[p].existing_ids, FALSE, records, "none",
                                       dup_ignored, merge))
         /\ records' =
              IndexOrUpdate(Computed(indexer[p].note, indexer[p].now),
                            indexer[p].existing_ids, FALSE, records, "none",
                            dup_ignored, merge).records
    /\ UNCHANGED <<collection_exists, calls, last, faults, files>>

NextConcurrent ==
    \E p \in Procs :
        \/ GetCollection(p)
        \/ CreateCollection(p)
        \/ BeginIndexNote(p)
        \/ ExistenceCheck(p)
        \/ WriteEntry(p)

\* processes interleaved at their store calls, working provider and store
SpecConcurrent == InitConcurrent /\ [][NextConcurrent]_vars

\* -------------------------------------------------------- Context Formatter
\* len(text) of a str: the characters of its pieces
RECURSIVE StrLen(_)
StrLen(text) == IF text = <<>> THEN 0 ELSE Len(Head(text)) + StrLen(Tail(text))

Digits == <<"0", "1", "2", "3", "4", "5", "6", "7", "8", "9">>

\* f"{i}" of a natural number
RECURSIVE FormatInt(_)
FormatInt(i) ==
    IF i < 10 THEN <<Digits[i + 1]>>
    ELSE FormatInt(i \div 10) \o <<Digits[(i % 10) + 1]>>

\* f"{similarity:.2f}" of a similarity given in hundredths
Format2f(similarity) ==
    LET a == IF similarity < 0 THEN 0 - similarity ELSE similarity
    IN  (IF similarity < 0 THEN <<"-">> ELSE <<>>)
        \o FormatInt(a \div 100)
        \o <<".", Digits[((a \div 10) % 10) + 1], Digits[(a % 10) + 1]>>

\* the body of the loop raises (and the result is skipped, lines 70-72) when the
\* similarity is not a number: f"{None:.2f}" is a TypeError
SectionRaises(result) == TypeOf(result, "similarity") # "expected"

\* lines 36-60: the block of result number i
NoteSection(i, result) ==
    LET metadata == Get(result, "metadata", <<>>)
        title == Get(metadata, "title", <<"Sem título">>)
        summary == Get(metadata, "summary", <<>>)
        date == Get(metadata, "data", <<>>)
        document == Get(result, "document", <<>>)
    IN  <<"\n--- NOTA ">> \o FormatInt(i) \o <<" ---">>
        \o (IF Truthy(title) THEN <<"\nTítulo: ">> \o title ELSE <<>>)
        \o (IF Truthy(date) THEN <<"\nData: ">> \o date ELSE <<>>)
        \o (IF Truthy(summary) THEN <<"\nResumo: ">> \o summary ELSE <<>>)
        \o (IF Truthy(document) THEN <<"\nConteúdo: ">> \o document ELSE <<>>)
        \o <<"\nRelevância: ">> \o Format2f(Get(result, "similarity", 0))
        \o <<"\n">>

\* the loop with the block appended before the limit is looked at
RECURSIVE FormatLoopAppendFirst(_, _, _, _, _)
FormatLoopAppendFirst(results, i, context_parts, total_chars, max_chars) ==
    IF i > Len(results) THEN context_parts
    ELSE IF SectionRaises(results[i])
      THEN FormatLoopAppendFirst(results, i + 1, context_parts, total_chars, max_chars)
    ELSE IF total_chars + StrLen(NoteSection(i, results[i])) > max_chars
      THEN Append(context_parts, NoteSection(i, results[i]))
    ELSE FormatLoopAppendFirst(results, i + 1,
                               Append(context_parts, NoteSection(i, results[i])),
                               total_chars + StrLen(NoteSection(i, results[i])),
                               max_chars)

\* the loop going on to the next result when a block is over the limit
RECURSIVE FormatLoopSkipping(_, _, _, _, _)
FormatLoopSkipping(results, i, context_parts, total_chars, max_chars) ==
    IF i > Len(results) THEN context_parts
    ELSE IF SectionRaises(results[i])
           \/ total_chars + StrLen(NoteSection(i, results[i])) > max_chars
      THEN FormatLoopSkipping(results, i + 1, context_parts, total_chars, max_chars)
    ELSE FormatLoopSkipping(results, i + 1,
                            Append(context_parts, NoteSection(i, results[i])),
                            total_chars + StrLen(NoteSection(i, results[i])),
                            max_chars)

\* lines 34-72: the loop from result number i on; a result whose block raises is
\* skipped, the first block over the limit ends the loop
RECURSIVE FormatLoop(_, _, _, _, _)
FormatLoop(results, i, context_parts, total_chars, max_chars) ==
    IF i > Len(results) THEN context_parts
    ELSE IF SectionRaises(results[i])
      THEN FormatLoop(results, i + 1, context_parts, total_chars, max_chars)
    ELSE IF total_chars + StrLen(NoteSection(i, results[i])) > max_chars
      THEN context_parts
    ELSE FormatLoop(results, i + 1,
                    Append(context_parts, NoteSection(i, results[i])),
                    total_chars + StrLen(NoteSection(i, results[i])),
                    max_chars)

\* lines 78-79
Header(count) ==
    <<"=== CONTEXTO DAS SUAS ANOTAÇÕES ===\n", "Total de notas relevantes: ">>
    \o FormatInt(count) \o <<"\n">>

\* line 81
Footer == <<"\n=== FIM DO CONTEXTO ===">>

NoResults == <<"Nenhuma nota relevante encontrada.">>

NoParts == <<"Erro ao processar as notas encontradas.">>

\* lines 74-83
Assemble(context_parts) ==
    IF ~Truthy(context_parts) THEN NoParts
    ELSE Header(Len(context_parts)) \o Join(context_parts, <<>>) \o Footer

format_for_rag(results, max_tokens) ==
    IF ~Truthy(results) THEN NoResults
    ELSE Assemble(FormatLoop(results, 1, <<>>, 0, max_tokens * 4))

\* a result as search_similar_notes returns it for note n
ResultOf(n, similarity) ==
    [id |-> _generate_unique_id(n), document |-> TextOf(n),
     metadata |-> _prepare_metadata(n, 1), similarity |-> similarity]

\* search results, and one whose similarity is None (its value is not read)
Results ==
    { ResultOf(Planejamento, 50),
      ResultOf(Compras, -50),
      ("wrong_type" :> ("similarity" :> "NoneType"))
          @@ ResultOf(WithHint(Compras, "vector_id", <<"v1">>), 0) }

ResultLists == UNION {[1..n -> Results] : n \in 0..MaxResults}

InitFormatter ==
    /\ collection_exists = FALSE
    /\ records = {}
    /\ indexer = "absent"
    /\ calls = <<>>
    /\ last \in {[op |-> "results", results |-> rs, max_tokens |-> m] :
                    rs \in ResultLists, m \in 0..MaxTokens}
    /\ faults = 0
    /\ files = <<>>

Formatted(results, max_tokens, context) ==
    [op |-> "format_for_rag", results |-> results, max_tokens |-> max_tokens,
     context |-> context]

FormatForRag ==
    /\ last.op = "results"
    /\ last' = Formatted(last.results, last.max_tokens,
                         format_for_rag(last.results, last.max_tokens))
    /\ UNCHANGED <<collection_exists, records, indexer, calls, faults, files>>

\* format_for_rag applied to every results list and budget
SpecFormatter == InitFormatter /\ [][FormatForRag]_vars

\* ------------------------------------------------------- truncate_context
\* context.rfind('\n') over a str written character by character: the 0-based
\* index of the last newline, -1 when there is none
RECURSIVE RFindNewline(_)
RFindNewline(text) ==
    IF text = <<>> THEN 0 - 1
    ELSE IF text[Len(text)] = "\n" THEN Len(text) - 1
    ELSE RFindNewline(SubSeq(text, 1, Len(text) - 1))

\* line 203
TruncationMarker == <<"\n\n[CONTEXTO TRUNCADO DEVIDO AO LIMITE DE TOKENS]">>

\* text[:n]
Prefix(text, n) == SubSeq(text, 1, Min(n, Len(text)))

\* lines 199-201 backing up to the last newline wherever it is
BackUpToAnyNewline(truncated, max_chars) ==
    IF RFindNewline(truncated) >= 0
      THEN Prefix(truncated, RFindNewline(truncated)) ELSE truncated

\* lines 199-201: back to the last newline when it lies in the last 20%
\* (last_newline > max_chars * 0.8)
BackUpToNewline(truncated, max_chars) ==
    IF 5 * RFindNewline(truncated) > 4 * max_chars
      THEN Prefix(truncated, RFindNewline(truncated)) ELSE truncated

truncate_context(context, max_tokens) ==
    IF Len(context) <= max_tokens * 4 THEN context
    ELSE BackUpToNewline(Prefix(context, max_tokens * 4), max_tokens * 4)
         \o TruncationMarker

\* len(text) // 4
estimate_tokens(text) == StrLen(text) \div 4

\* free-form contexts, character by character
Contexts == UNION {[1..n -> {"a", "\n"}] : n \in 0..MaxContextLen}

InitTruncate ==
    /\ collection_exists = FALSE
    /\ records = {}
    /\ indexer = "absent"
    /\ calls = <<>>
    /\ last \in {[op |-> "context", context |-> c, max_tokens |-> m] :
                    c \in Contexts, m \in 0..MaxCutTokens}
    /\ faults = 0
    /\ files = <<>>

Truncated(context, max_tokens, result) ==
    [op |-> "truncate_context", context |-> context, max_tokens |-> max_tokens,
     result |-> result]

TruncateContext ==
    /\ last.op = "context"
    /\ last' = Truncated(last.context, last.max_tokens,
                         truncate_context(last.context, last.max_tokens))
    /\ UNCHANGED <<collection_exists, records, indexer, calls, faults, files>>

\* truncate_context applied to every context and budget
SpecTruncate == InitTruncate /\ [][TruncateContext]_vars

\* ------------------------------------------------------------ auto-indexer
\* index_note_in_chroma(json_data) (chroma_indexer.py, lines 290-325): a
\* ChromaIndexer is built for the call and index_note run on it; whatever the
\* constructor raises is caught and gives False
index_note_in_chroma(json_data, exists, recs, now, init_fault, fault, merge) ==
    IF ChromaIndexer__init__(exists, init_fault).escaped
      THEN [result |-> FALSE, exists |-> ChromaIndexer__init__(exists, init_fault).exists,
            records |-> recs]
      ELSE [result |-> index_note(json_data, recs, now, fault, FALSE, merge).result,
            exists |-> TRUE,
            records |-> index_note(json_data, recs, now, fault, FALSE, merge).records]

\* image_dir.glob("*.json"), in directory order
JsonFiles == <<"a.json", "b.json", "c.json">>

\* json.load of a note file
NoteIn(json_file) ==
    CASE json_file = "a.json" -> Planejamento
      [] json_file = "b.json" -> WithHint(Compras, "vector_id", <<"v1">>)
      [] OTHER -> EmptyNote

\* what can go wrong while one file is processed: the note file does not load, the
\* embedding model does not load, the provider fails, the control file cannot be
\* read, cannot be opened for writing, or is left half written
Happenings ==
    {"nothing", "load", "model", "encode", "control_read", "control_open",
     "control_dump"}

\* a control file holding the JSON list `paths`
ControlFile(paths) == [readable |-> TRUE, paths |-> paths]

\* a control file that is no valid JSON
Corrupt == [readable |-> FALSE, paths |-> <<>>]

Range(seq) == {seq[i] : i \in 1..Len(seq)}

\* lines 43-50: the list in the control file, [] when reading it fails
get_processed_files(processed_file, read_fails) ==
    IF read_fails \/ ~processed_file.readable THEN <<>> ELSE processed_file.paths

\* lines 52-61: the list read, the path appended, the file written again; open(.., "w")
\* that fails leaves the file, a failing json.dump leaves it truncated
save_processed_file(processed_file, file_path, happens) ==
    IF happens = "control_open" THEN processed_file
    ELSE IF happens = "control_dump" THEN Corrupt
    ELSE ControlFile(Append(get_processed_files(processed_file,
                                                happens = "control_read"),
                            file_path))

\* the state of a scan: the collection, the control file, what each
\* save_processed_file call left in it, the files for which index_note_in_chroma
\* returned True, success_count
Scanning(exists, recs, control, saved, returned_true, success_count) ==
    [exists |-> exists, records |-> recs, control |-> control, saved |-> saved,
     returned_true |-> returned_true, success_count |-> success_count]

\* lines 93-98 recording the file whatever index_note_in_chroma returned
RecordAlways(json_file, happens, st, out) ==
    Scanning(out.exists, out.records,
             save_processed_file(st.control, json_file, happens),
             Append(st.saved, save_processed_file(st.control, json_file, happens)),
             IF out.result THEN st.returned_true \cup {json_file} ELSE st.returned_true,
             st.success_count + 1)

\* lines 93-98: the file is recorded when index_note_in_chroma returned True
RecordIfSuccess(json_file, happens, st, out) ==
    IF out.result
      THEN Scanning(out.exists, out.records,
                    save_processed_file(st.control, json_file, happens),
                    Append(st.saved,
                           save_processed_file(st.control, json_file, happens)),
                    st.returned_true \cup {json_file}, st.success_count + 1)
      ELSE Scanning(out.exists, out.records, st.control, st.saved,
                    st.returned_true, st.success_count)

\* lines 83-101: one file of the loop; an exception of the load is logged
ProcessFile(json_file, happens, st, now, merge) ==
    IF happens = "load" THEN st
    ELSE RecordIfSuccess(json_file, happens, st,
            index_note_in_chroma(NoteIn(json_file), st.exists, st.records, now,
                                 IF happens = "model" THEN "model" ELSE "none",
                                 IF happens = "encode" THEN "encode" ELSE "none",
                                 merge))

\* lines 82-101: the loop over new_files
RECURSIVE ProcessFiles(_, _, _, _, _)
ProcessFiles(new_files, what, st, now, merge) ==
    IF new_files = <<>> THEN st
    ELSE CHOOSE done \in
           {ProcessFiles(Tail(new_files), what, next, now, merge) :
              next \in {ProcessFile(Head(new_files), what[Head(new_files)], st, now,
                                    merge)}} : TRUE

\* lines 66-72: the files found that the control file does not list
NewFiles(processed_files) ==
    SelectSeq(JsonFiles, LAMBDA f : f \notin Range(processed_files))

\* process_new_files(image_dir, processed_file)
process_new_files(exists, recs, control, scan_read_fails, what, now, merge) ==
    ProcessFiles(NewFiles(get_processed_files(control, scan_read_fails)), what,
                 Scanning(exists, recs, control, <<control>>, {}, 0), now, merge)

\* setup() has created the control file with the empty list
InitAutoIndexer ==
    /\ collection_exists = FALSE
    /\ records = {}
    /\ indexer = "absent"
    /\ calls = <<>>
    /\ last = [op |-> "setup"]
    /\ faults = 0
    /\ files = [indexed_notes |-> ControlFile(<<>>)]

\* the failures a scan meets
Failures(what, scan_read_fails) ==
    Cardinality({f \in DOMAIN what : what[f] # "nothing"})
      + (IF scan_read_fails THEN 1 ELSE 0)

\* one entry of `calls`: a scan, the control file before it and after each
\* save_processed_file call, the files the scan submitted to index_note_in_chroma
\* and those for which that returned True
Scanned(control, submitted, out) ==
    [before |-> control, submitted |-> submitted, returned_true |-> out.returned_true,
     saved |-> out.saved, after |-> out.control, success_count |-> out.success_count]

\* one scan of monitor_mode's loop (lines 118-124) or of run_once; the failures are
\* transient, the last scan of a run meets none
Scan ==
    /\ Len(calls) < MaxScans
    /\ \E what \in [Range(JsonFiles) -> Happenings], scan_read_fails \in BOOLEAN,
          merge \in BOOLEAN :
         /\ faults + Failures(what, scan_read_fails) <= MaxScanFaults
         /\ Failures(what, scan_read_fails) = 0 \/ Len(calls) + 1 < MaxScans
         /\ faults' = faults + Failures(what, scan_read_fails)
         /\ \E out \in {process_new_files(collection_exists, records,
                                          files.indexed_notes, scan_read_fails, what,
                                          Len(calls) + 1, merge)} :
              /\ calls' = Append(calls,
                     Scanned(files.indexed_notes,
                             NewFiles(get_processed_files(files.indexed_notes,
                                                          scan_read_fails)),
                             out))
              /\ records' = out.records
              /\ collection_exists' = out.exists
              /\ files' = [files EXCEPT !.indexed_notes = out.control]
              /\ last' = [op |-> "process_new_files", scan |-> Len(calls) + 1,
                          count |-> out.success_count]
    /\ UNCHANGED indexer

\* the auto-indexer scanning, any of the failures possible
SpecAutoIndexer == InitAutoIndexer /\ [][Scan]_vars

\* monitor_mode's `while True` (lines 118-124) as `last` shows it: the next scan
\* is made and returns its count; every Scan step is a Loop step
Loop ==
    /\ Len(calls) < MaxScans
    /\ \E count \in 0..Len(JsonFiles) :
         last' = [op |-> "process_new_files", scan |-> Len(calls) + 1, count |-> count]

\* monitor_mode: the loop goes on scanning
SpecMonitor == InitAutoIndexer /\ [][Scan]_vars /\ WF_last(Loop)

\* ------------------------------------------------------------ main pipeline
\* the parameters of index_note_in_chroma (chroma_indexer.py, line 290)
IndexNoteInChromaParameters == {"json_data", "chroma_client"}

\* a call binds its keyword arguments to the function's parameters: a keyword the
\* function does not have raises TypeError
BindingRaises(parameters, keywords) == ~(keywords \subseteq parameters)

\* index_in_chromadb(json_data) (main.py, lines 413-436): index_note_in_chroma called
\* with json_data and the keyword persist_directory, `except Exception: return False`
index_in_chromadb(json_data, exists, recs, now, fault, merge) ==
    IF BindingRaises(IndexNoteInChromaParameters, {"persist_directory"})
      THEN [result |-> FALSE, exists |-> exists, records |-> recs]
      ELSE index_note_in_chroma(json_data, exists, recs, now, "none", fault, merge)

\* keep.all(): the notes of today that have attachments, by id
KeepNotes == <<"n1", "n2">>

\* what parse_text_to_json makes of the text of an image of the note
ParsedNote(note_id) ==
    IF note_id = "n1" THEN Planejamento
    ELSE WithHint(Compras, "vector_id", <<"v1">>)

\* what happens to one downloaded image: process_image_ocr raises, the parser gives
\* no JSON, the parser gives the note, the parser gives the note and the embedding
\* provider fails
ImageOutcomes == {"ocr_fails", "no_json", "json", "provider_fails"}

\* download_note_images: the images downloaded from one note, none, one or two
Downloads ==
    {<<>>, <<"ocr_fails">>, <<"no_json">>, <<"json">>, <<"provider_fails">>,
     <<"json", "ocr_fails">>, <<"ocr_fails", "json">>, <<"json", "json">>,
     <<"ocr_fails", "ocr_fails">>}

\* the results dictionary of process_single_image (lines 475-480)
StepResults(ocr, json_parsing, chromadb, move_image) ==
    [ocr |-> ocr, json_parsing |-> json_parsing, chromadb |-> chromadb,
     move_image |-> move_image]

\* process_single_image (lines 460-512): the steps reached and what the indexing
\* step left in the collection
process_single_image(outcome, note_id, exists, recs, now, merge) ==
    IF outcome = "ocr_fails"
      THEN [results |-> StepResults(FALSE, FALSE, FALSE, FALSE),
            exists |-> exists, records |-> recs]
    ELSE IF outcome = "no_json"
      THEN [results |-> StepResults(TRUE, FALSE, FALSE, TRUE),
            exists |-> exists, records |-> recs]
    ELSE [results |->
            StepResults(TRUE, TRUE,
                        index_in_chromadb(ParsedNote(note_id), exists, recs, now,
                            IF outcome = "provider_fails" THEN "encode" ELSE "none",
                            merge).result,
                        TRUE),
          exists |-> index_in_chromadb(ParsedNote(note_id), exists, recs, now,
                        IF outcome = "provider_fails" THEN "encode" ELSE "none",
                        merge).exists,
          records |-> index_in_chromadb(ParsedNote(note_id), exists, recs, now,
                        IF outcome = "provider_fails" THEN "encode" ELSE "none",
                        merge).records]

\* load_processed_notes (lines 156-166): the ids under the pipeline's label, none
\* when the file is missing or cannot be read
load_processed_notes(processed_notes_file, read_fails) ==
    IF read_fails THEN <<>> ELSE processed_notes_file

\* save_processed_note (lines 169-185): the id appended unless listed, the file
\* written again; a failing write is printed
save_processed_note(processed_notes_file, note_id, write_fails) ==
    IF write_fails THEN processed_notes_file
    ELSE IF note_id \in Range(load_processed_notes(processed_notes_file, FALSE))
      THEN load_processed_notes(processed_notes_file, FALSE)
      ELSE Append(load_processed_notes(processed_notes_file, FALSE), note_id)

\* is_note_processed (lines 187-191)
is_note_processed(processed_notes_file, note_id) ==
    note_id \in Range(load_processed_notes(processed_notes_file, FALSE))

\* get_new_notes_with_images (lines 240-249): the notes not yet processed
NewNotes(processed_notes_file) ==
    SelectSeq(KeepNotes, LAMBDA note_id : ~is_note_processed(processed_notes_file, note_id))

\* the state of the image loop of one note (lines 579-587)
ImageLoop(exists, recs, results, note_success, processed_images) ==
    [exists |-> exists, records |-> recs, results |-> results,
     note_success |-> note_success, processed_images |-> processed_images]

\* lines 581-587: one image processed and counted
ImageDone(loop, done) ==
    ImageLoop(done.exists, done.records, Append(loop.results, done.results),
              loop.note_success /\ done.results.ocr,
              loop.processed_images + (IF done.results.ocr THEN 1 ELSE 0))

\* lines 580-587: the loop over the images of a note
RECURSIVE ProcessImages(_, _, _, _, _)
ProcessImages(images, note_id, loop, now, merge) ==
    IF images = <<>> THEN loop
    ELSE ProcessImages(Tail(images), note_id,
            ImageDone(loop,
                      process_single_image(Head(images), note_id, loop.exists,
                                           loop.records, now, merge)),
            now, merge)

\* the state of a run: the collection, the processed-notes file, the images counted
\* so far and, for each note, the results of its images and whether
\* save_processed_note was called for it
Running(exists, recs, processed_notes_file, processed_images, notes) ==
    [exists |-> exists, records |-> recs, processed_notes_file |-> processed_notes_file,
     processed_images |-> processed_images, notes |-> notes]

\* one entry of a run's report: the note, what happened to each of its images, the
\* results of process_single_image, whether save_processed_note was called
NoteReport(note_id, images, results, saved) ==
    [id |-> note_id, images |-> images, results |-> results, saved |-> saved]

\* lines 589-594: the note is marked when note_success and processed_images > 0
MarkIfSuccess(note_id, images, run, loop, write_fails) ==
    IF loop.note_success /\ loop.processed_images > 0
      THEN Running(loop.exists, loop.records,
                   save_processed_note(run.processed_notes_file, note_id, write_fails),
                   loop.processed_images,
                   Append(run.notes, NoteReport(note_id, images, loop.results, TRUE)))
      ELSE Running(loop.exists, loop.records, run.processed_notes_file,
                   loop.processed_images,
                   Append(run.notes, NoteReport(note_id, images, loop.results, FALSE)))

\* lines 569-594: one note; without downloaded images the loop continues
ProcessNote(note_id, images, run, now, write_fails, merge) ==
    IF images = <<>>
      THEN Running(run.exists, run.records, run.processed_notes_file,
                   run.processed_images,
                   Append(run.notes, NoteReport(note_id, <<>>, <<>>, FALSE)))
      ELSE MarkIfSuccess(note_id, images, run,
              ProcessImages(images, note_id,
                            ImageLoop(run.exists, run.records, <<>>, TRUE,
                                      run.processed_images),
                            now, merge),
              write_fails)

\* lines 562-599: the loop over new_notes
RECURSIVE ProcessNotes(_, _, _, _, _, _)
ProcessNotes(new_notes, downloads, run, now, write_fails, merge) ==
    IF new_notes = <<>> THEN run
    ELSE ProcessNotes(Tail(new_notes), downloads,
            ProcessNote(Head(new_notes), downloads[Head(new_notes)], run, now,
                        write_fails, merge),
            now, write_fails, merge)

\* run_pipeline(label_name = None) (lines 515-620)
run_pipeline(exists, recs, processed_notes_file, downloads, now, write_fails, merge) ==
    ProcessNotes(NewNotes(processed_notes_file), downloads,
                 Running(exists, recs, processed_notes_file, 0, <<>>),
                 now, write_fails, merge)

\* nothing indexed, no note processed yet
InitPipeline ==
    /\ collection_exists = FALSE
    /\ records = {}
    /\ indexer = "absent"
    /\ calls = <<>>
    /\ last = [op |-> "none"]
    /\ faults = 0
    /\ files = [processed_notes |-> <<>>]

\* one run of the pipeline
RunPipeline ==
    /\ Len(calls) < MaxRuns
    /\ \E downloads \in [Range(KeepNotes) -> Downloads], write_fails \in BOOLEAN,
          merge \in BOOLEAN :
         /\ faults + (IF write_fails THEN 1 ELSE 0) <= MaxFaults
         /\ faults' = faults + (IF write_fails THEN 1 ELSE 0)
         /\ \E run \in {run_pipeline(collection_exists, records, files.processed_notes,
                                      downloads, Len(calls) + 1, write_fails, merge)} :
              /\ records' = run.records
              /\ collection_exists' = run.exists
              /\ files' = [files EXCEPT !.processed_notes = run.processed_notes_file]
              /\ last' = [op |-> "run_pipeline", notes |-> run.notes,
                          processed_images |-> run.processed_images]
              /\ calls' = Append(calls, Len(run.notes))
    /\ UNCHANGED indexer

\* the pipeline run again and again
SpecPipeline == InitPipeline /\ [][RunPipeline]_vars

\* --------------------------------------------- the normalizer on its own
Hints == { <<>>, <<"v1">>, <<"s1">> }

\* a hint key is absent ({}) or present with one of the values
HintChoices == {{}} \cup {{h} : h \in Hints}

Hinted(n, key, choice) ==
    IF choice = {} THEN n ELSE WithHint(n, key, CHOOSE h \in choice : TRUE)

NoteSpace ==
    { Hinted(Hinted(Note(title, data, summary, keywords, tasks, notes, <<>>),
                    "vector_id", v), "source_id", s) :
        title \in {<<>>, <<"Planejamento">>},
        data \in {<<"28/05/2025">>, <<"30/05/2025">>},
        summary \in {<<>>, <<"Tarefas", " ", "da", " ", "semana">>},
        keywords \in {<<>>, << <<"trabalho">> >>},
        tasks \in {<<>>, <<Task(<<"Reunião">>, "done")>>,
                   <<Task(<<"Reunião">>, "todo")>>, <<Task(<<>>, "todo")>>},
        notes \in {<<>>, << <<" ">> >>, << <<"leite">>, <<"pão">> >>},
        v \in HintChoices, s \in HintChoices }

InitIds ==
    /\ collection_exists = FALSE
    /\ records = {}
    /\ indexer = "absent"
    /\ calls = <<>>
    /\ last \in {[op |-> "note", note |-> n] : n \in NoteSpace}
    /\ faults = 0
    /\ files = <<>>

Derived(json_data, unique_id) ==
    [op |-> "_generate_unique_id", note |-> json_data, unique_id |-> unique_id]

GenerateUniqueId ==
    /\ last.op = "note"
    /\ last' = Derived(last.note, _generate_unique_id(last.note))
    /\ UNCHANGED <<collection_exists, records, indexer, calls, faults, files>>

\* _generate_unique_id applied to every note of NoteSpace
SpecIds == InitIds /\ [][GenerateUniqueId]_vars

Prepared(json_data, now, metadata) ==
    [op |-> "_prepare_metadata", note |-> json_data, now |-> now, metadata |-> metadata]

PrepareMetadata ==
    /\ last.op = "note"
    /\ \E now \in 1..MaxCalls :
         last' = Prepared(last.note, now, _prepare_metadata(last.note, now))
    /\ UNCHANGED <<collection_exists, records, indexer, calls, faults, files>>

\* _prepare_metadata applied to every note of NoteSpace
SpecMetadata == InitIds /\ [][PrepareMetadata]_vars

\* ------------------------------------------------------------------ claims
HasHint(n, key) == key \in DOMAIN n /\ n[key] # <<>>

\* C1: a note with non-empty embeddable text indexed twice in succession: the
\* second call returns True by the update path, and the collection then holds
\* exactly one record under the note's derived id, which is the record computed
\* from the note by the second call.
IdempotentUpsert ==
    \A i \in 2..Len(calls) :
        (calls[i - 1].note = calls[i].note /\ Strip(TextOf(calls[i].note)) # <<>>)
        => /\ calls[i - 1].result /\ calls[i].result
           /\ calls[i].path = "update"
           /\ {r \in calls[i].after : r.id = _generate_unique_id(calls[i].note)}
                = {Computed(calls[i].note, calls[i].now)}

\* C2: the derived id is vector_id when that is present and non-empty, else
\* source_id when that is present and non-empty, else the truncated SHA-256 of the
\* embeddable text.
IdPrecedence ==
    last.op = "_generate_unique_id" =>
        last.unique_id =
            IF HasHint(last.note, "vector_id") THEN last.note.vector_id
            ELSE IF HasHint(last.note, "source_id") THEN last.note.source_id
            ELSE Sha256Hex16(TextOf(last.note))

\* a note with both hints and text has had its id derived: it is the vector_id
IdPrecedenceWitness ==
    /\ last.op = "_generate_unique_id"
    /\ HasHint(last.note, "vector_id") /\ HasHint(last.note, "source_id")
    /\ last.note.vector_id # last.note.source_id
    /\ TextOf(last.note) # <<>>
    /\ last.unique_id = last.note.vector_id

NoHints(n) == ~HasHint(n, "vector_id") /\ ~HasHint(n, "source_id")

TaskTextOnly(n) == [i \in 1..Len(n.tasks) |-> n.tasks[i].task]

\* the same title, summary, notes, reminders, task texts and keywords
SameText(n, m) ==
    /\ n.title = m.title /\ n.summary = m.summary /\ n.notes = m.notes
    /\ n.reminders = m.reminders /\ n.keywords = m.keywords
    /\ TaskTextOnly(n) = TaskTextOnly(m)

\* C3: two hint-free notes with the same embeddable fields, whatever their date
\* and task statuses, derive the same id; indexed one after the other, the second
\* call updates the record of the first and the collection gains no record.
SameTextSameRecord ==
    \A i \in 2..Len(calls) :
        ( /\ NoHints(calls[i - 1].note) /\ NoHints(calls[i].note)
          /\ SameText(calls[i - 1].note, calls[i].note)
          /\ calls[i - 1].result )
        => /\ calls[i].unique_id = calls[i - 1].unique_id
           /\ calls[i].result /\ calls[i].path = "update"
           /\ Ids(calls[i].after) = Ids(calls[i].before)
           /\ Cardinality(calls[i].after) = Cardinality(calls[i].before)

\* two notes differing in date and task status were indexed in succession and the
\* second updated the first's record
SameTextSameRecordWitness ==
    \E i \in 2..Len(calls) :
        /\ NoHints(calls[i - 1].note) /\ NoHints(calls[i].note)
        /\ SameText(calls[i - 1].note, calls[i].note)
        /\ calls[i - 1].note.data # calls[i].note.data
        /\ calls[i - 1].note.tasks # calls[i].note.tasks
        /\ calls[i - 1].result /\ calls[i].path = "update"
        /\ Cardinality(calls[i].after) = 1

AllEmpty(n) ==
    /\ n.title = <<>> /\ n.summary = <<>> /\ n.notes = <<>>
    /\ n.reminders = <<>> /\ n.tasks = <<>> /\ n.keywords = <<>>

\* C4: index_note of a note whose title, summary, notes, reminders, tasks and
\* keywords are all empty, with or without identity hints, returns False without
\* calling the embedding provider and without an add or update on the collection.
EmptyContentRejected ==
    \A i \in 1..Len(calls) :
        AllEmpty(calls[i].note)
        => /\ calls[i].result = FALSE
           /\ calls[i].made \cap {"encode", "add", "update"} = {}
           /\ calls[i].after = calls[i].before

\* an empty note carrying a vector_id under which a record exists was rejected
EmptyContentRejectedWitness ==
    \E i \in 1..Len(calls) :
        /\ AllEmpty(calls[i].note) /\ HasHint(calls[i].note, "vector_id")
        /\ calls[i].unique_id \in Ids(calls[i].before)
        /\ calls[i].result = FALSE

IsSearch == last.op = "search_similar_notes"

IsStats == last.op = "get_collection_stats"

ConstructionNeverRaises == last.op = "__init__" => ~last.escaped

SuccessfulIds == {calls[i].unique_id : i \in {j \in 1..Len(calls) : calls[j].result}}

LatestFor(i) ==
    \A k \in (i + 1)..Len(calls) :
        ~(calls[k].result /\ calls[k].unique_id = calls[i].unique_id)

ResultCount ==
    IsSearch => Len(last.results) = Min(last.n_results, Cardinality(records))

\* a search for two results on a collection of one record returned that record
ResultCountWitness ==
    /\ IsSearch /\ Cardinality(records) = 1 /\ last.n_results = 2
    /\ Len(last.results) = 1

\* C10: the similarities of a returned sequence never increase, and the results
\* are the store's answer in the store's order, none dropped.
SimilarityNonIncreasing ==
    IsSearch
    => /\ \A j \in 1..(Len(last.results) - 1) :
            last.results[j].similarity >= last.results[j + 1].similarity
       /\ [j \in 1..Len(last.results) |-> last.results[j].id] = last.store_ids

\* a search returned two results of different similarity
SimilarityNonIncreasingWitness ==
    /\ IsSearch /\ Len(last.results) = 2
    /\ last.results[1].similarity > last.results[2].similarity

\* C11: every returned result has similarity = 1 - distance for the distance of
\* its record from the query, and that value lies in [0, 1].
SimilarityInUnitInterval ==
    IsSearch =>
        \A j \in 1..Len(last.results) :
            /\ last.results[j].similarity
                 = 100 - CosineDistance(encode(last.query),
                                        RecordOf(records, last.results[j].id).embedding)
            /\ last.results[j].similarity >= 0
            /\ last.results[j].similarity <= 100

\* C12: the core never deletes: every step keeps the ids the collection holds, so
\* the number of records never decreases.
NeverDeletes ==
    [][ /\ Ids(records) \subseteq Ids(records')
        /\ Cardinality(records') >= Cardinality(records) ]_vars

\* a record was updated by a later call and is still held
NeverDeletesWitness ==
    /\ Len(calls) = 2 /\ calls[1].result
    /\ calls[2].result /\ calls[2].path = "update"
    /\ Ids(records) = {calls[1].unique_id}

\* C13: when a call returns True for an id for which an earlier call returned
\* True, the collection holds one record under that id and it is exactly the record
\* computed from the later note by that call: its indexed_at is the later call's
\* time and no metadata key that only the earlier note produced survives.
UpdateReplacesInPlace ==
    \A i \in 1..Len(calls) : \A j \in (i + 1)..Len(calls) :
        (calls[i].result /\ calls[j].result /\ calls[i].unique_id = calls[j].unique_id)
        => {r \in calls[j].after : r.id = calls[j].unique_id}
             = {Computed(calls[j].note, calls[j].now)}

\* C16: search_similar_notes("", n) is embedded and sent to the store like any
\* other query: with a working provider and store it returns min(n, k) results on
\* a collection of k records, which are the store's answer.
EmptyQueryAnswered ==
    (IsSearch /\ last.query = <<>>)
    => /\ Len(last.results) = Min(last.n_results, Cardinality(records))
       /\ last.n_results > 0 => last.raised = "none"
       /\ [j \in 1..Len(last.results) |-> last.results[j].id] = last.store_ids

\* the empty query on a collection of two records returned both
EmptyQueryAnsweredWitness ==
    /\ IsSearch /\ last.query = <<>> /\ last.n_results = 2
    /\ Cardinality(records) = 2 /\ Len(last.results) = 2

\* the number of tasks of the list with the given status
StatusCount(tasks, status) == Cardinality({i \in 1..Len(tasks) : tasks[i].status = status})

\* C19: the metadata have exactly the keys title, summary, data, indexed_at,
\* notes_count and reminders_count, plus keywords iff the keywords list is
\* non-empty, plus total_tasks, done_tasks and todo_tasks iff the tasks list is
\* non-empty, plus source_id / vector_id iff that hint is present and non-empty;
\* total_tasks is the length of the tasks list, done_tasks and todo_tasks count
\* its entries of status done and todo.
MetadataKeySet ==
    last.op = "_prepare_metadata" =>
        /\ DOMAIN last.metadata =
              {"title", "summary", "data", "indexed_at", "notes_count", "reminders_count"}
              \cup (IF last.note.keywords # <<>> THEN {"keywords"} ELSE {})
              \cup (IF last.note.tasks # <<>>
                      THEN {"total_tasks", "done_tasks", "todo_tasks"} ELSE {})
              \cup (IF HasHint(last.note, "source_id") THEN {"source_id"} ELSE {})
              \cup (IF HasHint(last.note, "vector_id") THEN {"vector_id"} ELSE {})
        /\ last.metadata.notes_count = Len(last.note.notes)
        /\ last.metadata.reminders_count = Len(last.note.reminders)
        /\ last.note.tasks # <<>> =>
              /\ last.metadata.total_tasks = Len(last.note.tasks)
              /\ last.metadata.done_tasks = StatusCount(last.note.tasks, "done")
              /\ last.metadata.todo_tasks = StatusCount(last.note.tasks, "todo")

\* the metadata of a note without tasks and keywords whose vector_id is the empty
\* string were prepared: no counter, no keywords and no vector_id key
MetadataKeySetWitness ==
    /\ last.op = "_prepare_metadata"
    /\ last.note.tasks = <<>> /\ last.note.keywords = <<>>
    /\ "vector_id" \in DOMAIN last.note /\ last.note.vector_id = <<>>
    /\ HasHint(last.note, "source_id")
    /\ DOMAIN last.metadata =
         {"title", "summary", "data", "indexed_at", "notes_count", "reminders_count",
          "source_id"}

IsMalformed(n) == "wrong_type" \in DOMAIN n

\* the note with its wrong-typed fields emptied
Coerced(n) ==
    [key \in (DOMAIN n) \ {"wrong_type"} |->
        IF TypeOf(n, key) = "expected" THEN n[key] ELSE <<>>]

\* C15: index_note of a note in which a list field has the wrong type and another
\* text field is non-empty returns True, and the record stored under its id is the
\* one computed from the note with the malformed field taken as empty.
MalformedNotesIndexed ==
    \A i \in 1..Len(calls) :
        (IsMalformed(calls[i].note) /\ Strip(TextOf(Coerced(calls[i].note))) # <<>>)
        => /\ calls[i].result
           /\ calls[i].unique_id = _generate_unique_id(Coerced(calls[i].note))
           /\ {r \in calls[i].after : r.id = calls[i].unique_id}
                = {Computed(Coerced(calls[i].note), calls[i].now)}

Constructing(p) == indexer[p].pc \in {"get_collection", "create_collection"}

\* C14: when Indexer instances are constructed concurrently for the same
\* collection, in every interleaving of their get_collection and create_collection
\* calls every construction completes: none raises, and once all are through the
\* collection exists and every instance holds it.
RaceTolerantGetOrCreate ==
    /\ \A p \in Procs : indexer[p].pc # "raised"
    /\ (\A p \in Procs : ~Constructing(p)) => collection_exists

Finished(p) == indexer[p].pc = "done"

SameIdentity(p, q) ==
    /\ _generate_unique_id(indexer[p].note) = _generate_unique_id(indexer[q].note)
    /\ Strip(TextOf(indexer[p].note)) # <<>>
    /\ Strip(TextOf(indexer[q].note)) # <<>>

\* C20: with processes running index_note concurrently on one collection, the
\* collection never holds two records of one id, and when two processes whose
\* notes derive the same id have both finished it holds exactly one record of it.
OneRecordPerId ==
    /\ \A r1, r2 \in records : r1.id = r2.id => r1 = r2
    /\ \A p, q \in Procs :
         (p # q /\ Finished(p) /\ Finished(q) /\ SameIdentity(p, q))
         => Cardinality({r \in records : r.id = _generate_unique_id(indexer[p].note)}) = 1

\* two processes with different notes of one id both found no record, both went
\* to add, and the collection holds one record of that id
OneRecordPerIdWitness ==
    \E p, q \in Procs :
        /\ p # q /\ Finished(p) /\ Finished(q) /\ SameIdentity(p, q)
        /\ indexer[p].note # indexer[q].note
        /\ indexer[p].existing_ids = <<>> /\ indexer[q].existing_ids = <<>>
        /\ Cardinality(records) = 1

IsContext == last.op = "format_for_rag"

\* the blocks of the results numbered in S, in the given order
RECURSIVE BlocksOf(_, _, _)
BlocksOf(results, S, i) ==
    IF i > Len(results) THEN <<>>
    ELSE (IF i \in S THEN NoteSection(i, results[i]) ELSE <<>>)
         \o BlocksOf(results, S, i + 1)

\* header, the whole blocks of the results numbered in S, footer
Wrapped(results, S) == Header(Cardinality(S)) \o BlocksOf(results, S, 1) \o Footer

HeaderCountsIncluded ==
    (IsContext /\ last.results # <<>>)
    => \E S \in SUBSET (1..Len(last.results)) :
         last.context = Wrapped(last.results, S)

\* the blocks of results 1..k, none of which raises, taken together
RECURSIVE PrefixChars(_, _)
PrefixChars(results, k) ==
    IF k = 0 THEN 0
    ELSE PrefixChars(results, k - 1) + StrLen(NoteSection(k, results[k]))

AllRender(results) == \A i \in 1..Len(results) : ~SectionRaises(results[i])

\* C21: for results that all render, format_for_rag includes exactly the longest
\* prefix of the results whose blocks together have at most max_tokens * 4
\* characters, in the given order: no result after the first block over the budget
\* is included, even one whose block would fit.
LongestPrefixIncluded ==
    (IsContext /\ last.results # <<>> /\ AllRender(last.results))
    => \E k \in 0..Len(last.results) :
         /\ PrefixChars(last.results, k) <= last.max_tokens * 4
         /\ k < Len(last.results)
              => PrefixChars(last.results, k + 1) > last.max_tokens * 4
         /\ last.context = IF k = 0 THEN NoParts ELSE Wrapped(last.results, 1..k)

\* the first of two blocks was over the budget and the second, which fits it, was
\* not included
LongestPrefixIncludedWitness ==
    /\ IsContext /\ Len(last.results) = 2 /\ AllRender(last.results)
    /\ StrLen(NoteSection(1, last.results[1])) > last.max_tokens * 4
    /\ StrLen(NoteSection(2, last.results[2])) <= last.max_tokens * 4
    /\ last.context = NoParts

IsTruncated == last.op = "truncate_context"

StateUnchangedOnFailure ==
    \A i \in 1..Len(calls) : ~calls[i].result => calls[i].after = calls[i].before

\* an update of a stored record failed and the record is as it was
StateUnchangedOnFailureWitness ==
    \E i \in 1..Len(calls) :
        /\ calls[i].raised = "update" /\ ~calls[i].result
        /\ calls[i].unique_id \in Ids(calls[i].before)
        /\ calls[i].note # calls[1].note
        /\ calls[i].after = calls[i].before

\* the step in which process p makes its add or update and index_note returns
WriteStep(p) == indexer[p].pc = "write" /\ indexer'[p].pc = "done"

\* C28: a concurrent index_note call that returns True has had its write take
\* effect: at the step of its add or update the record under its id gets the
\* document, the embedding and the metadata values of that call, so the record is
\* always that of the last write issued.
TrueMeansWritten ==
    [][ \A p \in Procs :
          (WriteStep(p) /\ indexer'[p].result)
          => \E r \in records' :
               /\ r.id = _generate_unique_id(indexer[p].note)
               /\ r.document = TextOf(indexer[p].note)
               /\ r.embedding = encode(TextOf(indexer[p].note))
               /\ \A key \in DOMAIN _prepare_metadata(indexer[p].note, indexer[p].now) :
                    /\ key \in DOMAIN r.metadata
                    /\ r.metadata[key]
                         = _prepare_metadata(indexer[p].note, indexer[p].now)[key]
      ]_vars
\* the paths the control file lists
Recorded == Range(get_processed_files(files.indexed_notes, FALSE))

\* the paths a control file lists
PathsIn(processed_file) == Range(get_processed_files(processed_file, FALSE))

\* C23: every path the auto-indexer's control file lists is the path of a file for
\* which index_note_in_chroma returned True, and a scan adds to the control file
\* no file whose load or indexing failed: what it lists after the scan was listed
\* before it or had True returned in it
RecordedOnlyAfterSuccess ==
    /\ \A path \in Recorded :
         \E i \in 1..Len(calls) : path \in calls[i].returned_true
    /\ \A i \in 1..Len(calls) :
         PathsIn(calls[i].after) \subseteq
           PathsIn(calls[i].before) \cup calls[i].returned_true

\* a scan has recorded a.json, whose indexing returned True, and left out b.json and
\* c.json, which it submitted too: one met a failure, the empty note gives False
RecordedOnlyAfterSuccessWitness ==
    /\ Len(calls) = 1
    /\ Range(calls[1].submitted) = Range(JsonFiles)
    /\ calls[1].returned_true = {"a.json"}
    /\ Recorded = {"a.json"}
    /\ Cardinality(records) = 1

\* C29: the control file only grows: every save_processed_file call of every scan
\* leaves recorded each path that was recorded before the call
ControlFileOnlyGrows ==
    \A i \in 1..Len(calls) :
      \A k \in 2..Len(calls[i].saved) :
        PathsIn(calls[i].saved[k - 1]) \subseteq PathsIn(calls[i].saved[k])

\* C24: in monitor mode every file the control file does not list is submitted by
\* the scan, no listed file is submitted, and a file for which index_note_in_chroma
\* returned True is recorded from some scan on
MonitorProgress ==
    /\ [](\A i \in 1..Len(calls) :
            Range(calls[i].submitted) = Range(JsonFiles) \ PathsIn(calls[i].before))
    /\ \A f \in Range(JsonFiles) :
         (\E i \in 1..Len(calls) : f \in calls[i].returned_true) ~> [](f \in Recorded)
    /\ [][\A f \in Recorded : f \notin Range(calls'[Len(calls')].submitted)]_vars

\* C25: index_in_chromadb returns True and leaves the note in the collection
\* whenever indexing it succeeds, that is for every image of the last run whose
\* text parsed into a valid, non-empty note while the provider and the store
\* worked; it returns False only when the provider failed
IndexInChromadbSucceeds ==
    last.op = "run_pipeline" =>
      \A n \in 1..Len(last.notes) :
        \A i \in 1..Len(last.notes[n].results) :
          /\ last.notes[n].images[i] = "json" =>
                /\ last.notes[n].results[i].chromadb
                /\ \E rec \in records :
                     rec.id = _generate_unique_id(ParsedNote(last.notes[n].id))
          /\ (last.notes[n].results[i].json_parsing
                /\ ~last.notes[n].results[i].chromadb) =>
                last.notes[n].images[i] = "provider_fails"

\* C26: a note is recorded as processed if OCR succeeded for at least one of its
\* downloaded images, and is not recorded when it succeeded for none
RecordedIfAnyImageProcessed ==
    last.op = "run_pipeline" /\ faults = 0 =>
      \A n \in 1..Len(last.notes) :
        is_note_processed(files.processed_notes, last.notes[n].id)
          <=> \E i \in 1..Len(last.notes[n].results) : last.notes[n].results[i].ocr

\* C30: the note count a consumer of get_collection_stats shows equals the
\* total_notes of the stats it was given, which is the number of records
ShownCountIsTotalNotes ==
    (last.op \in {"setup_indexer", "show_stats", "get_stats"} /\ last.raised = "none")
      => /\ last.notes = last.stats.total_notes
         /\ last.notes = StoreCount(records)

====
